---- MODULE Spec2Model ----
(***************************************************************************)
(* The authentication session of the FunWine frontend: the AuthProvider    *)
(* store (context/AuthContext.tsx), the ClientShell route guard            *)
(* (app/ClientShell.tsx) and the UI handlers that call the store           *)
(* (LoginPage.handleSubmit, Navbar.handleLogout, the DashboardPage         *)
(* redirect effect).                                                       *)
(*                                                                         *)
(* JavaScript runs each continuation of an async function to its next      *)
(* await without interruption and React batches the state setters called   *)
(* in it, so every action below is one such continuation: the synchronous  *)
(* prefix of a call up to its HTTP request, or the code that runs when a   *)
(* response (or failure) of a request arrives.  The backend is the         *)
(* environment: each request is answered by any response it can give.      *)
(***************************************************************************)
EXTENDS Naturals, Sequences, FiniteSets, Bags, TLC

VARIABLES
    user,       \* useState<User | null>(null)
    loading,    \* useState<boolean>(true)
    error,      \* useState<string | null>(null)
    theme,      \* useState<string>("theme-light")
    mounted,    \* whether AuthProvider's mount effect has run
    pathname,   \* the active route (usePathname / router.push)
    ops,        \* bag of the calls of fetchMe/login/logout that are in flight
    overlap,    \* history: some call in flight has shared its time with another
    atStart,    \* history: user and theme when the call running alone began
    last,       \* history: the call that completed in the last step, if any
    sidebar,    \* the Sidebar component: the identity it is given, its links
    backend,    \* the answer the backend's session and user data give to
                \* GET /auth/me, where a specification holds them unchanged
    route       \* the public-route test of ClientShell: the path it is
                \* given and what isPublic is for it

vars == <<user, loading, error, theme, mounted, pathname, ops, overlap, atStart,
          last, sidebar, backend, route>>

----------------------------------------------------------------------------
(* Bounds *)

\* The longest tail appended to a route when the paths for the public-route
\* test are drawn.
MaxTailLen == 3

\* Largest number of store calls in flight at the same time.
MaxInFlight == 2

----------------------------------------------------------------------------
(* Values *)

\* JavaScript null for `user`, as a record of the User shape with id 0.
NullUser ==
    [id |-> 0, username |-> "", ui_theme |-> "", ui_sidebar |-> FALSE,
     ui_navbar |-> FALSE, ui_simple_mode |-> FALSE]

\* The identities GET /auth/me can return (types/auth.ts User); carol has
\* stored no theme preference, which the guard of fetchMe provides for.
Users ==
    { [id |-> 1, username |-> "alice", ui_theme |-> "theme-dark",
       ui_sidebar |-> TRUE, ui_navbar |-> TRUE, ui_simple_mode |-> FALSE],
      [id |-> 2, username |-> "bob", ui_theme |-> "theme-light",
       ui_sidebar |-> TRUE, ui_navbar |-> FALSE, ui_simple_mode |-> TRUE],
      [id |-> 3, username |-> "carol", ui_theme |-> "",
       ui_sidebar |-> FALSE, ui_navbar |-> TRUE, ui_simple_mode |-> FALSE] }

\* The bodies POST /auth/login can answer with (types/auth.ts
\* TokenResponse): they name a user.
NoToken == [user_id |-> 0, username |-> ""]

TokenResponses == {[user_id |-> u.id, username |-> u.username] : u \in Users}

\* JavaScript null for `error`.
NoError == "<null>"

DefaultTheme == "theme-light"

\* JavaScript truthiness of a string or of a number.
Truthy(s) == s # ""

TruthyNum(n) == n # 0

\* What a rejected axios request throws: status is err.response.status
\* (0: there is no err.response), detail is err.response.data.detail
\* ("": none), message is err.message.
NoErr == [status |-> 0, detail |-> "", message |-> ""]

Failures ==
    { [status |-> 401, detail |-> "bad credentials",
       message |-> "Request failed with status code 401"],
      [status |-> 401, detail |-> "",
       message |-> "Request failed with status code 401"],
      [status |-> 500, detail |-> "database unavailable",
       message |-> "Request failed with status code 500"],
      [status |-> 500, detail |-> "",
       message |-> "Request failed with status code 500"],
      [status |-> 0, detail |-> "", message |-> "Network Error"] }

\* new Error("Login succeeded but failed to load user")
InconsistentErr ==
    [status |-> 0, detail |-> "",
     message |-> "Login succeeded but failed to load user"]

\* What GET /auth/me answers while the backend's session and user data stay
\* as they are: a User, or a failure.
Answers ==
    {[data |-> u, err |-> NoErr] : u \in Users}
        \cup {[data |-> NullUser, err |-> e] : e \in Failures}

\* The backend's data is free to change between requests.
AnyAnswer == [data |-> NullUser, err |-> NoErr]

\* A faulty ErrorText: err.message is preferred to the server's detail.
ErrorText_MessageFirst(err, fallback) ==
    IF Truthy(err.message) THEN err.message
    ELSE IF Truthy(err.detail) THEN err.detail
    ELSE fallback

\* err?.response?.data?.detail || err.message || fallback
ErrorText(err, fallback) ==
    IF Truthy(err.detail) THEN err.detail
    ELSE IF Truthy(err.message) THEN err.message
    ELSE fallback

\* Route paths, as sequences of characters.
P_root == <<"/">>

P_login == <<"/", "l", "o", "g", "i", "n">>

P_register == <<"/", "r", "e", "g", "i", "s", "t", "e", "r">>

P_public == <<"/", "p", "u", "b", "l", "i", "c">>

P_dashboard == <<"/", "d", "a", "s", "h", "b", "o", "a", "r", "d">>

P_login_x == P_login \o <<"/", "x">>

P_loginx == P_login \o <<"x">>

P_auth_login == <<"/", "(", "a", "u", "t", "h", ")">> \o P_login

\* The paths the user is taken through.
Paths == {P_root, P_login, P_dashboard, P_login_x, P_loginx, P_auth_login}

----------------------------------------------------------------------------
(* The session state and the store's code, setter by setter *)

State == [user |-> user, loading |-> loading, error |-> error, theme |-> theme]

\* fetchMe, lines 144-145
fetchMe_begin(s) == [s EXCEPT !.loading = TRUE, !.error = NoError]

\* A faulty fetchMe_then: the theme is not applied.
fetchMe_then_NoTheme(s, data) == [s EXCEPT !.user = data]

\* A faulty fetchMe_then: a response is dropped when another call has
\* completed meanwhile (loading is no longer true).
fetchMe_then_DropStale(s, data) ==
    IF s.loading
    THEN [s EXCEPT !.user = data,
                   !.theme = IF Truthy(data.ui_theme) THEN data.ui_theme ELSE @]
    ELSE s

\* A faulty fetchMe_then: the theme is taken from the identity held before
\* the response (a stale closure) and not from the response.
fetchMe_then_StaleTheme(s, data) ==
    [s EXCEPT !.user = data,
              !.theme = IF Truthy(s.user.ui_theme) THEN s.user.ui_theme ELSE @]

\* fetchMe, lines 148-152
fetchMe_then(s, data) ==
    [s EXCEPT !.user = data,
              !.theme = IF Truthy(data.ui_theme) THEN data.ui_theme ELSE @]

\* A faulty fetchMe_catch: a 401 is not swallowed.
fetchMe_catch_No401(s, err) ==
    [s EXCEPT !.user = NullUser,
              !.error = IF TruthyNum(err.status)
                        THEN ErrorText(err, "Failed to fetch user")
                        ELSE @]

\* fetchMe, lines 155-159
fetchMe_catch(s, err) ==
    [s EXCEPT !.user = NullUser,
              !.error = IF TruthyNum(err.status) /\ err.status # 401
                        THEN ErrorText(err, "Failed to fetch user")
                        ELSE @]

\* fetchMe, line 162
fetchMe_finally(s) == [s EXCEPT !.loading = FALSE]

\* login, lines 172-173
login_begin(s) == [s EXCEPT !.loading = TRUE, !.error = NoError]

\* A faulty login_then: the user named by the login response is taken as
\* the identity.
login_then_TrustBody(s, body) ==
    [s EXCEPT !.user = CHOOSE u \in Users : u.id = body.user_id]

\* login, line 176: the response of POST /auth/login is awaited and dropped.
login_then(s, body) == s

\* A faulty login_catch: the error is not recorded.
login_catch_NoError(s, err) == [s EXCEPT !.user = NullUser]

\* login, lines 182-183
login_catch(s, err) ==
    [s EXCEPT !.user = NullUser, !.error = ErrorText(err, "Login failed")]

\* login, line 186
\* A faulty login_finally: loading is left as it is.
login_finally_Skip(s) == s

\* login, finally block.
login_finally(s) == [s EXCEPT !.loading = FALSE]

\* A faulty logout_begin: loading is not set.
logout_begin_NotLoading(s) == [s EXCEPT !.error = NoError]

\* logout, lines 191-192
logout_begin(s) == [s EXCEPT !.loading = TRUE, !.error = NoError]

\* A faulty logout_then: the theme is not reset.
logout_then_NoTheme(s) == [s EXCEPT !.user = NullUser]

\* logout, lines 195-196
logout_then(s) == [s EXCEPT !.user = NullUser, !.theme = "theme-light"]

\* A faulty logout_catch: the identity is cleared as in login's catch.
logout_catch_ClearsUser(s, err) ==
    [s EXCEPT !.user = NullUser, !.error = ErrorText(err, "Logout failed")]

\* logout, line 198
logout_catch(s, err) == [s EXCEPT !.error = ErrorText(err, "Logout failed")]

\* A faulty logout_finally: loading is left as it is.
logout_finally_Skip(s) == s

\* logout, line 201
logout_finally(s) == [s EXCEPT !.loading = FALSE]

Set(s) ==
    /\ user' = s.user
    /\ loading' = s.loading
    /\ error' = s.error
    /\ theme' = s.theme

----------------------------------------------------------------------------
(* The route guard *)

StartsWith(s, p) == Len(s) >= Len(p) /\ SubSeq(s, 1, Len(p)) = p

publicRoutes == <<P_login, P_register, P_root, P_public>>

\* A faulty isPublic: the prefix match does not ask for the "/" after the
\* route.
isPublic_AnyPrefix(path) ==
    \E i \in 1..Len(publicRoutes) :
        \/ path = publicRoutes[i]
        \/ StartsWith(path, publicRoutes[i])

\* ClientShell, lines 24-26
isPublic(path) ==
    \E i \in 1..Len(publicRoutes) :
        \/ path = publicRoutes[i]
        \/ StartsWith(path, publicRoutes[i] \o <<"/">>)

\* The public-route test before any path has been tested.
NoTest == [path |-> <<>>, tested |-> FALSE, public |-> FALSE]

\* A faulty ClientShell: the public-route test comes before the loading test.
ClientShell_PublicFirst(l, u, path) ==
    IF isPublic(path) \/ u = NullUser THEN "children"
    ELSE IF l THEN "placeholder"
    ELSE "shell"

\* A faulty ClientShell: the passthrough needs a public route and no identity.
ClientShell_PublicAndAnonymous(l, u, path) ==
    IF l THEN "placeholder"
    ELSE IF isPublic(path) /\ u = NullUser THEN "children"
    ELSE "shell"

\* What ClientShell returns: the loading placeholder, the children alone,
\* or the children inside the sidebar/navbar chrome.
ClientShell(l, u, path) ==
    IF l THEN "placeholder"
    ELSE IF isPublic(path) \/ u = NullUser THEN "children"
    ELSE "shell"

Rendered == ClientShell(loading, user, pathname)

\* The Navbar is on screen: the shell is rendered and ui_navbar is not false.
NavbarShown == Rendered = "shell" /\ user.ui_navbar

\* A faulty login form: it can be submitted whenever the route is "/login".
LoginFormEnabled_Always == pathname = P_login

\* The login form is on screen with its submit button enabled.
LoginFormEnabled == pathname = P_login /\ Rendered = "children" /\ ~loading

----------------------------------------------------------------------------
(* The sidebar *)

\* const links = [...]
links ==
    << [href |-> "/dashboard", label |-> "Dashboard", key |-> "dashboard"],
       [href |-> "/intake", label |-> "Intake", key |-> "intake"],
       [href |-> "/blocks", label |-> "Blocks", key |-> "blocks"],
       [href |-> "/reports", label |-> "Reports", key |-> "reports"] >>

FeatureKeys == {links[i].key : i \in 1..Len(links)}

\* ui_features: Record<string, boolean>, a map from some of the keys to
\* booleans.
FeatureMaps == UNION {[K -> BOOLEAN] : K \in SUBSET FeatureKeys}

\* What useAuthContext() gives the Sidebar: null (present is false), or an
\* identity with its ui_simple_mode and ui_features.
SidebarUsers ==
    {[present |-> FALSE, ui_simple_mode |-> FALSE, ui_features |-> <<>>]}
    \cup {[present |-> TRUE, ui_simple_mode |-> m, ui_features |-> f] :
             m \in BOOLEAN, f \in FeatureMaps}

\* Truthiness of user?.ui_features?.[key]: a missing key reads undefined.
FeatureOn(u, key) ==
    u.present /\ key \in DOMAIN u.ui_features /\ u.ui_features[key]

\* A faulty Sidebar: the feature flags hide links outside simple mode too.
Sidebar_FlagsAlways(u) ==
    LET Shown(l) == FeatureOn(u, l.key)
    IN  SelectSeq(links, Shown)

\* The links the Sidebar renders, in order: links.map(l =>
\* user?.ui_simple_mode && !user?.ui_features?.[l.key] ? null : <Link .../>)
Sidebar(u) ==
    LET Shown(l) == ~((u.present /\ u.ui_simple_mode) /\ ~FeatureOn(u, l.key))
    IN  SelectSeq(links, Shown)

\* The Sidebar before it is rendered.
NoSidebar ==
    [user |-> [present |-> FALSE, ui_simple_mode |-> FALSE, ui_features |-> <<>>],
     rendered |-> FALSE, links |-> <<>>]

----------------------------------------------------------------------------
(* Calls in flight *)

\* A call in flight: which function, where it waits ("get": fetchMe's GET
\* /auth/me, "post": the POST of login or logout, "me": the GET /auth/me of
\* the fetchMe that login called), who called it, and how many GET /auth/me
\* requests it has issued.  loggedOut is history: a logout() has succeeded
\* since this call began; token is history: the body POST /auth/login
\* answered this call with.
Op(kind, pc, via, gets) ==
    [kind |-> kind, pc |-> pc, via |-> via, gets |-> gets, loggedOut |-> FALSE,
     token |-> NoToken]

MarkLoggedOut(op) == [op EXCEPT !.loggedOut = TRUE]

NoSnapshot == [user |-> NullUser, theme |-> "", error |-> NoError]

\* No route: the caller of a call did not navigate.
NoRoute == <<>>

\* LoginPage.handleSubmit after `await login(...)`: router.push("/dashboard")
\* when login resolved; a rejection is caught and dropped.
handleSubmit(resolved, thrown) ==
    [pushed |-> IF resolved THEN P_dashboard ELSE NoRoute, uncaught |-> NoErr]

\* A faulty handleLogout: router.push("/login") is outside the try block.
handleLogout_PushAlways(resolved, thrown) ==
    [pushed |-> P_login, uncaught |-> NoErr]

\* Navbar.handleLogout after `await logout()`: router.push("/login") when
\* logout resolved; a rejection is caught and logged.
handleLogout(resolved, thrown) ==
    [pushed |-> IF resolved THEN P_login ELSE NoRoute, uncaught |-> NoErr]

\* What the caller of a completed call does: the route it pushes and the
\* rejection it lets escape.  A direct caller gets the rejection itself.
Caller(via, resolved, thrown) ==
    IF via = "form" THEN handleSubmit(resolved, thrown)
    ELSE IF via = "navbar" THEN handleLogout(resolved, thrown)
    ELSE [pushed |-> NoRoute, uncaught |-> thrown]

\* The route after the caller of a completed call has run.
Landing(via, resolved, thrown) ==
    LET h == Caller(via, resolved, thrown)
    IN  IF h.pushed # NoRoute THEN h.pushed ELSE pathname

\* No call completed in the last step.
NoEvent ==
    [kind |-> "none", via |-> "none", stage |-> "none", gets |-> 0,
     resolved |-> FALSE, value |-> NullUser, thrown |-> NoErr, cause |-> NoErr,
     alone |-> FALSE, before |-> NoSnapshot, afterLogout |-> FALSE,
     token |-> NoToken,
     pushed |-> NoRoute, uncaught |-> NoErr, from |-> NoRoute]

InFlight == BagCardinality(ops)

\* A call begins: it joins the calls in flight.
Begin(op) ==
    /\ InFlight < MaxInFlight
    /\ ops' = ops (+) SetToBag({op})
    /\ overlap' = (InFlight > 0)
    /\ atStart' = IF InFlight = 0
                  THEN [user |-> user, theme |-> theme, error |-> error]
                  ELSE NoSnapshot
    /\ last' = NoEvent

\* A call completes: it resolves with `value` or rejects with `thrown`;
\* `cause` is the failure of its last request, if that failed.
Complete(op, resolved, value, thrown, cause) ==
    /\ ops' = IF op.kind = "logout" /\ resolved
              THEN BagOfAll(MarkLoggedOut, ops (-) SetToBag({op}))
              ELSE ops (-) SetToBag({op})
    /\ last' = [kind |-> op.kind, via |-> op.via, stage |-> op.pc,
                gets |-> op.gets, resolved |-> resolved, value |-> value,
                thrown |-> thrown, cause |-> cause,
                alone |-> ~overlap, before |-> atStart,
                afterLogout |-> op.loggedOut, token |-> op.token,
                pushed |-> Caller(op.via, resolved, thrown).pushed,
                uncaught |-> Caller(op.via, resolved, thrown).uncaught,
                from |-> pathname]
    /\ UNCHANGED <<overlap, atStart>>

----------------------------------------------------------------------------
(* Actions *)

\* A faulty initial state: loading starts as false.
Init_NotLoading ==
    /\ user = NullUser
    /\ loading = FALSE
    /\ error = NoError
    /\ theme = "theme-light"
    /\ mounted = FALSE
    /\ pathname \in Paths
    /\ ops = EmptyBag
    /\ overlap = FALSE
    /\ atStart = NoSnapshot
    /\ last = NoEvent
    /\ sidebar = NoSidebar
    /\ backend = AnyAnswer
    /\ route = NoTest

Init ==
    /\ user = NullUser
    /\ loading = TRUE
    /\ error = NoError
    /\ theme = "theme-light"
    /\ mounted = FALSE
    /\ pathname \in Paths
    /\ ops = EmptyBag
    /\ overlap = FALSE
    /\ atStart = NoSnapshot
    /\ last = NoEvent
    /\ sidebar = NoSidebar
    /\ backend = AnyAnswer
    /\ route = NoTest

\* useEffect(() => { void fetchMe(); }, [fetchMe])
Mount ==
    /\ ~mounted
    /\ mounted' = TRUE
    /\ Set(fetchMe_begin(State))
    /\ Begin(Op("fetchMe", "get", "mount", 1))
    /\ UNCHANGED pathname
    /\ UNCHANGED <<sidebar, backend, route>>

\* Any consumer of the context calls fetchMe().
CallFetchMe ==
    /\ mounted
    /\ Set(fetchMe_begin(State))
    /\ Begin(Op("fetchMe", "get", "direct", 1))
    /\ UNCHANGED <<mounted, pathname>>
    /\ UNCHANGED <<sidebar, backend, route>>

\* Any consumer of the context calls login(username, password).
CallLogin ==
    /\ mounted
    /\ Set(login_begin(State))
    /\ Begin(Op("login", "post", "direct", 0))
    /\ UNCHANGED <<mounted, pathname>>
    /\ UNCHANGED <<sidebar, backend, route>>

\* LoginPage.handleSubmit up to its await.
SubmitLogin ==
    /\ mounted
    /\ LoginFormEnabled
    /\ Set(login_begin(State))
    /\ Begin(Op("login", "post", "form", 0))
    /\ UNCHANGED <<mounted, pathname>>
    /\ UNCHANGED <<sidebar, backend, route>>

\* Any consumer of the context calls logout().
CallLogout ==
    /\ mounted
    /\ Set(logout_begin(State))
    /\ Begin(Op("logout", "post", "direct", 0))
    /\ UNCHANGED <<mounted, pathname>>
    /\ UNCHANGED <<sidebar, backend, route>>

\* Navbar.handleLogout up to its await.
ClickLogout ==
    /\ mounted
    /\ NavbarShown
    /\ Set(logout_begin(State))
    /\ Begin(Op("logout", "post", "navbar", 0))
    /\ UNCHANGED <<mounted, pathname>>
    /\ UNCHANGED <<sidebar, backend, route>>

\* GET /auth/me of a fetchMe() call answers with a User.
FetchMeOk(op, data) ==
    /\ BagIn(op, ops) /\ op.kind = "fetchMe"
    /\ Set(fetchMe_finally(fetchMe_then(State, data)))
    /\ Complete(op, TRUE, data, NoErr, NoErr)
    /\ UNCHANGED <<mounted, pathname>>
    /\ UNCHANGED <<sidebar, backend, route>>

\* GET /auth/me of a fetchMe() call fails.
FetchMeFail(op, err) ==
    /\ BagIn(op, ops) /\ op.kind = "fetchMe"
    /\ Set(fetchMe_finally(fetchMe_catch(State, err)))
    /\ Complete(op, TRUE, NullUser, NoErr, err)
    /\ UNCHANGED <<mounted, pathname>>
    /\ UNCHANGED <<sidebar, backend, route>>

\* POST /auth/login succeeds with `body`: login goes on to call fetchMe().
LoginPostOk(op, body) ==
    /\ BagIn(op, ops) /\ op.kind = "login" /\ op.pc = "post"
    /\ Set(fetchMe_begin(login_then(State, body)))
    /\ ops' = (ops (-) SetToBag({op}))
              (+) SetToBag({[op EXCEPT !.pc = "me", !.gets = @ + 1,
                                       !.token = body]})
    /\ last' = NoEvent
    /\ UNCHANGED <<mounted, pathname, overlap, atStart>>
    /\ UNCHANGED <<sidebar, backend, route>>

\* POST /auth/login fails.
LoginPostFail(op, err) ==
    /\ BagIn(op, ops) /\ op.kind = "login" /\ op.pc = "post"
    /\ Set(login_finally(login_catch(State, err)))
    /\ Complete(op, FALSE, NullUser, err, err)
    /\ pathname' = Landing(op.via, FALSE, err)
    /\ UNCHANGED mounted
    /\ UNCHANGED <<sidebar, backend, route>>

\* GET /auth/me of login's fetchMe() answers with a User: login returns it,
\* and LoginPage.handleSubmit goes on to router.push("/dashboard").
LoginMeOk(op, data) ==
    /\ BagIn(op, ops) /\ op.kind = "login" /\ op.pc = "me"
    /\ Set(login_finally(fetchMe_finally(fetchMe_then(State, data))))
    /\ Complete(op, TRUE, data, NoErr, NoErr)
    /\ pathname' = Landing(op.via, TRUE, NoErr)
    /\ UNCHANGED mounted
    /\ UNCHANGED <<sidebar, backend, route>>

\* GET /auth/me of login's fetchMe() fails: fetchMe returns null and login
\* throws, catches and rethrows the inconsistency error.
LoginMeFail(op, err) ==
    /\ BagIn(op, ops) /\ op.kind = "login" /\ op.pc = "me"
    /\ Set(login_finally(login_catch(
              fetchMe_finally(fetchMe_catch(State, err)), InconsistentErr)))
    /\ Complete(op, FALSE, NullUser, InconsistentErr, err)
    /\ pathname' = Landing(op.via, FALSE, InconsistentErr)
    /\ UNCHANGED mounted
    /\ UNCHANGED <<sidebar, backend, route>>

\* POST /auth/logout succeeds; Navbar.handleLogout goes on to
\* router.push("/login").
LogoutOk(op) ==
    /\ BagIn(op, ops) /\ op.kind = "logout"
    /\ Set(logout_finally(logout_then(State)))
    /\ Complete(op, TRUE, NullUser, NoErr, NoErr)
    /\ pathname' = Landing(op.via, TRUE, NoErr)
    /\ UNCHANGED mounted
    /\ UNCHANGED <<sidebar, backend, route>>

\* POST /auth/logout fails.
LogoutFail(op, err) ==
    /\ BagIn(op, ops) /\ op.kind = "logout"
    /\ Set(logout_finally(logout_catch(State, err)))
    /\ Complete(op, FALSE, NullUser, err, err)
    /\ pathname' = Landing(op.via, FALSE, err)
    /\ UNCHANGED mounted
    /\ UNCHANGED <<sidebar, backend, route>>

\* The user follows a link or types an address.
Navigate(p) ==
    /\ mounted
    /\ p # pathname
    /\ pathname' = p
    /\ last' = NoEvent
    /\ UNCHANGED <<user, loading, error, theme, mounted, ops, overlap, atStart>>
    /\ UNCHANGED <<sidebar, backend, route>>

\* DashboardPage's effect: router.replace("/(auth)/login").
DashboardRedirect ==
    /\ mounted
    /\ pathname = P_dashboard
    /\ Rendered # "placeholder"
    /\ ~loading /\ user = NullUser
    /\ pathname' = P_auth_login
    /\ last' = NoEvent
    /\ UNCHANGED <<user, loading, error, theme, mounted, ops, overlap, atStart>>
    /\ UNCHANGED <<sidebar, backend, route>>

Next ==
    \/ Mount
    \/ CallFetchMe
    \/ CallLogin
    \/ SubmitLogin
    \/ CallLogout
    \/ ClickLogout
    \/ \E op \in BagToSet(ops), data \in Users : FetchMeOk(op, data)
    \/ \E op \in BagToSet(ops), err \in Failures : FetchMeFail(op, err)
    \/ \E op \in BagToSet(ops), body \in TokenResponses : LoginPostOk(op, body)
    \/ \E op \in BagToSet(ops), err \in Failures : LoginPostFail(op, err)
    \/ \E op \in BagToSet(ops), data \in Users : LoginMeOk(op, data)
    \/ \E op \in BagToSet(ops), err \in Failures : LoginMeFail(op, err)
    \/ \E op \in BagToSet(ops) : LogoutOk(op)
    \/ \E op \in BagToSet(ops), err \in Failures : LogoutFail(op, err)
    \/ \E p \in Paths : Navigate(p)
    \/ DashboardRedirect

Spec == Init /\ [][Next]_vars

\* The behaviours in which every identity the backend returns carries a
\* theme preference (a non-empty ui_theme).
ThemedNext == Next /\ (last'.value = NullUser \/ Truthy(last'.value.ui_theme))

SpecThemed == Init /\ [][ThemedNext]_vars

\* The application driven through its UI alone: the mount effect, the login
\* form and the Navbar's logout control are the only callers of the store.
UINext ==
    \/ Mount
    \/ SubmitLogin
    \/ ClickLogout
    \/ \E op \in BagToSet(ops), data \in Users : FetchMeOk(op, data)
    \/ \E op \in BagToSet(ops), err \in Failures : FetchMeFail(op, err)
    \/ \E op \in BagToSet(ops), body \in TokenResponses : LoginPostOk(op, body)
    \/ \E op \in BagToSet(ops), err \in Failures : LoginPostFail(op, err)
    \/ \E op \in BagToSet(ops), data \in Users : LoginMeOk(op, data)
    \/ \E op \in BagToSet(ops), err \in Failures : LoginMeFail(op, err)
    \/ \E op \in BagToSet(ops) : LogoutOk(op)
    \/ \E op \in BagToSet(ops), err \in Failures : LogoutFail(op, err)
    \/ \E p \in Paths : Navigate(p)
    \/ DashboardRedirect

SpecUI == Init /\ [][UINext]_vars

\* React runs the provider's mount effect once the first render is committed.
SpecUIFair == SpecUI /\ WF_vars(Mount)

\* The arrival of the response (or failure) of a request in flight, by
\* request.
RespondFetchMe ==
    \/ \E op \in BagToSet(ops), data \in Users : FetchMeOk(op, data)
    \/ \E op \in BagToSet(ops), err \in Failures : FetchMeFail(op, err)

RespondLoginPost ==
    \/ \E op \in BagToSet(ops), body \in TokenResponses : LoginPostOk(op, body)
    \/ \E op \in BagToSet(ops), err \in Failures : LoginPostFail(op, err)

RespondLoginMe ==
    \/ \E op \in BagToSet(ops), data \in Users : LoginMeOk(op, data)
    \/ \E op \in BagToSet(ops), err \in Failures : LoginMeFail(op, err)

RespondLogout ==
    \/ \E op \in BagToSet(ops) : LogoutOk(op)
    \/ \E op \in BagToSet(ops), err \in Failures : LogoutFail(op, err)

\* The store on its own, called by any component at any time, with the
\* application on one route.
StoreNext ==
    \/ Mount
    \/ CallFetchMe
    \/ CallLogin
    \/ CallLogout
    \/ RespondFetchMe
    \/ RespondLoginPost
    \/ RespondLoginMe
    \/ RespondLogout

StoreInit == Init /\ pathname = P_dashboard

SpecStore == StoreInit /\ [][StoreNext]_vars

\* The behaviours of the store in which the mount effect runs and every HTTP
\* request eventually receives a response or a failure.
SpecResponsive ==
    /\ SpecStore
    /\ WF_vars(Mount)
    /\ WF_vars(RespondFetchMe)
    /\ WF_vars(RespondLoginPost)
    /\ WF_vars(RespondLoginMe)
    /\ WF_vars(RespondLogout)

----------------------------------------------------------------------------
(* The Sidebar on its own: it is given any identity and renders its links *)

session == <<user, loading, error, theme, mounted, pathname, ops, overlap,
             atStart, last>>

\* The provider as constructed, on the dashboard route; the Sidebar not yet
\* rendered, with any identity to render.
SidebarInit ==
    /\ user = NullUser
    /\ loading = TRUE
    /\ error = NoError
    /\ theme = "theme-light"
    /\ mounted = FALSE
    /\ pathname = P_dashboard
    /\ ops = EmptyBag
    /\ overlap = FALSE
    /\ atStart = NoSnapshot
    /\ last = NoEvent
    /\ sidebar \in {[user |-> u, rendered |-> FALSE, links |-> <<>>] :
                       u \in SidebarUsers}
    /\ backend = AnyAnswer
    /\ route = NoTest

\* The Sidebar renders for the identity of the context.
SidebarRender ==
    /\ ~sidebar.rendered
    /\ sidebar' = [sidebar EXCEPT !.rendered = TRUE, !.links = Sidebar(sidebar.user)]
    /\ UNCHANGED <<session, backend, route>>

\* The identity of the context changes and the Sidebar renders again.
SidebarUserChanges(u) ==
    /\ sidebar.rendered
    /\ u # sidebar.user
    /\ sidebar' = [user |-> u, rendered |-> TRUE, links |-> Sidebar(u)]
    /\ UNCHANGED <<session, backend, route>>

SidebarNext ==
    \/ SidebarRender
    \/ \E u \in SidebarUsers : SidebarUserChanges(u)

SpecSidebar == SidebarInit /\ [][SidebarNext]_vars

----------------------------------------------------------------------------
(* fetchMe() called again and again, one call after another, against a     *)
(* backend whose session and user data do not change                       *)

RefetchInit ==
    /\ user = NullUser
    /\ loading = TRUE
    /\ error = NoError
    /\ theme = "theme-light"
    /\ mounted = FALSE
    /\ pathname \in Paths
    /\ ops = EmptyBag
    /\ overlap = FALSE
    /\ atStart = NoSnapshot
    /\ last = NoEvent
    /\ sidebar = NoSidebar
    /\ backend \in Answers
    /\ route = NoTest

\* fetchMe() is called once the previous call has completed.
Refetch == InFlight = 0 /\ CallFetchMe

\* GET /auth/me is answered from the backend's data.
RefetchOk ==
    \E op \in BagToSet(ops) : backend.err = NoErr /\ FetchMeOk(op, backend.data)

RefetchFail ==
    \E op \in BagToSet(ops) : backend.err # NoErr /\ FetchMeFail(op, backend.err)

RefetchNext ==
    \/ Mount
    \/ Refetch
    \/ RefetchOk
    \/ RefetchFail

SpecRefetch == RefetchInit /\ [][RefetchNext]_vars

----------------------------------------------------------------------------
(* The public-route test on its own: ClientShell is rendered on any path   *)

\* The paths tested: every beginning of a public route or of "/dashboard",
\* followed by any tail of "/" and "x" of up to MaxTailLen characters.
Heads ==
    UNION {{SubSeq(r, 1, k) : k \in 0..Len(r)} :
              r \in {P_login, P_register, P_root, P_public, P_dashboard}}

Tails == UNION {[1..n -> {"/", "x"}] : n \in 0..MaxTailLen}

TestPaths == {h \o t : h \in Heads, t \in Tails} \ {<<>>}

\* The provider as constructed, the application on any of the paths.
RouteInit ==
    /\ user = NullUser
    /\ loading = TRUE
    /\ error = NoError
    /\ theme = "theme-light"
    /\ mounted = FALSE
    /\ pathname \in TestPaths
    /\ ops = EmptyBag
    /\ overlap = FALSE
    /\ atStart = NoSnapshot
    /\ last = NoEvent
    /\ sidebar = NoSidebar
    /\ backend = AnyAnswer
    /\ route = NoTest

\* ClientShell renders: isPublic is computed for usePathname().
RouteTest ==
    /\ ~route.tested
    /\ route' = [path |-> pathname, tested |-> TRUE, public |-> isPublic(pathname)]
    /\ UNCHANGED <<session, sidebar, backend>>

\* The user goes to another path and ClientShell renders again.
RouteChange(p) ==
    /\ route.tested
    /\ p # pathname
    /\ pathname' = p
    /\ route' = [path |-> p, tested |-> TRUE, public |-> isPublic(p)]
    /\ UNCHANGED <<user, loading, error, theme, mounted, ops, overlap, atStart,
                   last, sidebar, backend>>

RouteNext ==
    \/ RouteTest
    \/ \E p \in TestPaths : RouteChange(p)

SpecRoute == RouteInit /\ [][RouteNext]_vars

----------------------------------------------------------------------------
(* Properties.  `last` describes the call that completed in the step that  *)
(* led to the current state, so a state with last.kind = "login" is the    *)
(* Session State on completion of a login call.  A call is alone when no   *)
(* other call was in flight at any time between its start and its          *)
(* completion; last.before is then the state in which it was called.       *)

LoginDone == last.kind = "login"

LogoutDone == last.kind = "logout"

FetchMeDone == last.kind = "fetchMe"

C2_AfterLogout_AsStated ==
    (LogoutDone /\ last.alone) =>
        /\ user = NullUser
        /\ theme = DefaultTheme
        /\ loading = FALSE

\* C2, amended: once a logout() call whose POST /auth/logout succeeded has
\* completed, identity is absent, theme is the default theme and loading is
\* false.
C2_AfterLogout ==
    (LogoutDone /\ last.resolved) =>
        /\ user = NullUser
        /\ theme = DefaultTheme
        /\ loading = FALSE

\* A logout succeeds in a session that had an identity and a dark theme.
C2_Witness ==
    /\ LogoutDone /\ last.resolved /\ last.alone
    /\ last.before.user # NullUser
    /\ last.before.theme = "theme-dark"

\* C3: when login's POST /auth/login fails, login rejects with that failure,
\* has issued no GET /auth/me, and leaves identity absent, loading false and
\* error equal to the server's detail text if the response carries one, else
\* to the transport error text.
C3_LoginPostFails ==
    (LoginDone /\ last.stage = "post") =>
        /\ ~last.resolved
        /\ last.thrown = last.cause
        /\ last.cause \in Failures
        /\ last.gets = 0
        /\ user = NullUser
        /\ loading = FALSE
        /\ error = IF last.cause.detail # "" THEN last.cause.detail
                   ELSE last.cause.message

\* A login over an existing identity is refused with "bad credentials".
C3_Witness ==
    /\ LoginDone /\ last.stage = "post" /\ last.alone
    /\ last.cause.status = 401
    /\ error = "bad credentials"
    /\ last.before.user # NullUser

\* C4: when a fetchMe() call made on its own (not by login, and with no
\* other call in flight meanwhile) gets a 401 from GET /auth/me, it returns
\* null and leaves error absent, identity absent and loading false, whatever
\* the state before.
C4_FetchMe401 ==
    (FetchMeDone /\ last.alone /\ last.cause.status = 401) =>
        /\ last.resolved
        /\ last.value = NullUser
        /\ error = NoError
        /\ user = NullUser
        /\ loading = FALSE

\* A fetchMe called with an error showing and an identity present gets a 401.
C4_Witness ==
    /\ FetchMeDone /\ last.alone /\ last.cause.status = 401
    /\ last.before.error # NoError
    /\ last.before.user # NullUser

\* C5, as stated: when the GET /auth/me of a fetchMe() call fails otherwise
\* than with a 401 (another HTTP error status, or no HTTP response at all),
\* identity is absent and error is set on completion.
C5_FetchMeOtherFailure ==
    (FetchMeDone /\ last.alone /\ last.cause # NoErr
        /\ last.cause.status # 401) =>
        /\ user = NullUser
        /\ error # NoError

\* C6: when login's POST succeeded and its GET /auth/me yields no identity,
\* login rejects with the inconsistency error and leaves identity absent,
\* loading false and error set; a login that resolves returns an identity.
C6_LoginWithoutIdentity ==
    /\ (LoginDone /\ last.stage = "me" /\ last.cause # NoErr) =>
          /\ ~last.resolved
          /\ last.thrown = InconsistentErr
          /\ user = NullUser
          /\ loading = FALSE
          /\ error # NoError
    /\ (LoginDone /\ last.resolved) =>
          /\ last.value \in Users
          /\ last.cause = NoErr

\* A login whose POST succeeded gets a 401 from GET /auth/me.
C6_Witness ==
    /\ LoginDone /\ last.stage = "me" /\ last.gets = 1
    /\ last.cause.status = 401
    /\ error = InconsistentErr.message

\* C7: when the POST /auth/logout of logout() fails, logout rejects with
\* that failure, error is set and loading is false; identity and theme are
\* what they were when logout was called.
C7_LogoutFails ==
    (LogoutDone /\ last.cause # NoErr) =>
        /\ ~last.resolved
        /\ last.thrown = last.cause
        /\ error # NoError
        /\ loading = FALSE
        /\ last.alone => (user = last.before.user /\ theme = last.before.theme)

\* A logout fails in a session with an identity and a dark theme.
C7_Witness ==
    /\ LogoutDone /\ last.cause # NoErr /\ last.alone
    /\ user # NullUser
    /\ theme = "theme-dark"

\* C8, as stated: theme is identity.ui_theme whenever identity is present,
\* and the default theme whenever identity is absent.  Checked in the
\* behaviours of SpecThemed, where every identity has a theme to reflect.
C8_ThemeFollowsIdentity ==
    /\ user # NullUser => theme = user.ui_theme
    /\ user = NullUser => theme = DefaultTheme

\* C9, as stated: loading is true only while a call is in flight.
C9_LoadingOnlyInFlight_AsStated == loading => InFlight > 0

\* C9, amended: loading is true only while a call is in flight or before
\* the provider's mount effect has issued the initial fetchMe().
C9_LoadingOnlyInFlight == loading => (InFlight > 0 \/ ~mounted)

\* A later call is in flight, with an identity present, and loading is true.
C9_Witness ==
    /\ loading /\ mounted /\ InFlight = 1
    /\ user # NullUser

\* C10: whenever loading is true the route guard renders the loading
\* placeholder, on every route and with or without an identity.
C10_LoadingPlaceholder == loading => Rendered = "placeholder"

\* Loading with an identity present on a route that is not public.
C10_Witness ==
    /\ loading /\ Rendered = "placeholder"
    /\ user # NullUser
    /\ ~isPublic(pathname)

\* C11: the route guard renders the authenticated shell only when loading
\* is false, an identity is present and the route is not public; in every
\* other state with loading false (route public, or identity absent) it
\* renders the content alone.
C11_ShellOnlyWhenAuthenticated ==
    /\ Rendered = "shell" =>
          (~loading /\ user # NullUser /\ ~isPublic(pathname))
    /\ (~loading /\ (isPublic(pathname) \/ user = NullUser)) =>
          Rendered = "children"
    /\ (~loading /\ user # NullUser /\ ~isPublic(pathname)) =>
          Rendered = "shell"

\* An identity is present, nothing is loading, and the route is public: the
\* content is rendered without the shell.
C11_Witness ==
    /\ ~loading /\ user # NullUser /\ isPublic(pathname)
    /\ Rendered = "children"

\* The labels of a sequence of links.
Labels(ls) == {ls[i].label : i \in 1..Len(ls)}

\* C12: for every identity and every entry of the Sidebar's list, the entry
\* is suppressed if and only if ui_simple_mode is true and ui_features has
\* no truthy value for the entry's key (missing or false); outside simple
\* mode all four entries are shown; the shown entries keep the list's order.
C12_SidebarEntries ==
    (sidebar.rendered /\ sidebar.user.present) =>
        LET u == sidebar.user
            out == sidebar.links
        IN  /\ \A i \in 1..Len(links) :
                  (links[i].label \notin Labels(out)) <=>
                      (u.ui_simple_mode /\
                         (links[i].key \notin DOMAIN u.ui_features
                            \/ u.ui_features[links[i].key] = FALSE))
            /\ ~u.ui_simple_mode =>
                  out = links /\ Len(out) = 4
            /\ \A a, b \in 1..Len(out) :
                  a < b =>
                      \E i, j \in 1..Len(links) :
                          i < j /\ links[i] = out[a] /\ links[j] = out[b]

\* Simple mode with "blocks" false and "reports" missing: both are
\* suppressed, the entries switched on are shown in order.
C12_Witness ==
    /\ sidebar.rendered /\ sidebar.user.present
    /\ sidebar.user.ui_simple_mode
    /\ sidebar.user.ui_features =
          [k \in {"dashboard", "intake", "blocks"} |-> k # "blocks"]
    /\ sidebar.links = <<links[1], links[2]>>

\* C13: the Navbar's logout control calls logout() and navigates to
\* "/login" only once that call has completed successfully; when it
\* rejects, the route stays and the rejection is caught by the handler.
\* Nothing but a successful Navbar logout makes a handler push "/login".
C13_NavbarLogout ==
    /\ last.via = "navbar" =>
          /\ LogoutDone
          /\ last.resolved => (last.pushed = P_login /\ pathname = P_login)
          /\ ~last.resolved =>
                /\ last.thrown = last.cause /\ last.cause \in Failures
                /\ last.pushed = NoRoute
                /\ pathname = last.from
                /\ last.uncaught = NoErr
    /\ last.pushed = P_login =>
          (LogoutDone /\ last.via = "navbar" /\ last.resolved)
    /\ \A op \in BagToSet(ops) :
          op.via = "navbar" => (op.kind = "logout" /\ op.pc = "post")

\* A logout started from the Navbar on the dashboard fails: the user stays
\* on the dashboard.
C13_Witness ==
    /\ LogoutDone /\ last.via = "navbar" /\ ~last.resolved
    /\ pathname = P_dashboard
    /\ error # NoError

\* C14: calls are not serialised and the last completion wins.  While fewer
\* than MaxInFlight calls are in flight any of the three functions can be
\* called, whatever is in flight; each completion writes its own result
\* over whatever the others wrote: it leaves loading false even with other
\* calls still in flight, a fetchMe (or login) that gets a User leaves that
\* User as the identity even if a logout has succeeded since it began, a
\* successful logout and a failed login or fetchMe leave the identity
\* absent, and a rejected call leaves its own error text.
C14_LastWriteWins ==
    /\ (mounted /\ InFlight < MaxInFlight) =>
          (ENABLED CallFetchMe /\ ENABLED CallLogin /\ ENABLED CallLogout)
    /\ last.kind # "none" =>
          /\ loading = FALSE
          /\ last.value \in Users => (last.resolved /\ user = last.value)
          /\ (last.value = NullUser /\ ~(LogoutDone /\ ~last.resolved)) =>
                user = NullUser
          /\ ~last.resolved => error = ErrorText(last.thrown, "")

\* A fetchMe() gets its User after a logout() that began and succeeded while
\* it was in flight: the identity is back.
C14_Witness ==
    /\ FetchMeDone /\ last.afterLogout /\ ~last.alone
    /\ last.value \in Users
    /\ user = last.value
    /\ InFlight = 0

\* C15: with the UI as the only caller (SpecUI), no login or logout can be
\* started while loading is true, loading is true as long as a call is in
\* flight, and so no two calls are ever in flight at the same time.
C15_OneActionAtATime ==
    /\ InFlight <= 1
    /\ InFlight > 0 => loading
    /\ loading => (~ENABLED SubmitLogin /\ ~ENABLED ClickLogout)

\* A login submitted from the form waits for its GET /auth/me, on the login
\* route.
C15_Witness ==
    /\ pathname = P_login /\ loading
    /\ \E op \in BagToSet(ops) : op.via = "form" /\ op.pc = "me"

\* The fetchMe() call of the mount effect is in flight.
InitialFetchInFlight == \E op \in BagToSet(ops) : op.via = "mount"

\* The application has just started: the mount effect has not run yet.
C16_AtStart ==
    ~mounted =>
        /\ user = NullUser /\ loading /\ error = NoError /\ theme = DefaultTheme
        /\ InFlight = 0
        /\ ENABLED Mount
        /\ ~ENABLED SubmitLogin /\ ~ENABLED ClickLogout

\* While the initial fetchMe() is in flight it is the only call, of kind
\* fetchMe, and the state is still the initial one, with loading true.
C16_UntilFirstFetchCompletes ==
    InitialFetchInFlight =>
        /\ mounted
        /\ ops = SetToBag({Op("fetchMe", "get", "mount", 1)})
        /\ loading
        /\ user = NullUser /\ error = NoError /\ theme = DefaultTheme
        /\ ~ENABLED SubmitLogin /\ ~ENABLED ClickLogout

\* C16: with the UI as the only caller, the application starts with
\* identity absent, loading true, error absent and the default theme; the
\* first thing to happen is the mount effect's fetchMe(), which needs no
\* user action and does happen; no login or logout can start before it or
\* while it is in flight; it is issued once and never again; and loading
\* stays true until it completes.
C16_InitialFetch ==
    /\ [](C16_AtStart /\ C16_UntilFirstFetchCompletes)
    /\ [][~mounted => (mounted' /\ InitialFetchInFlight')]_vars
    /\ [][(mounted /\ ~InitialFetchInFlight) => ~InitialFetchInFlight']_vars
    /\ <>mounted

\* The initial fetchMe() is in flight while the user is on the login page,
\* whose form cannot be submitted.
C16_Witness ==
    /\ mounted /\ InitialFetchInFlight
    /\ pathname = P_login
    /\ loading /\ ~ENABLED SubmitLogin

\* C17: the identity is always absent or a User, and every step that makes
\* a User the identity is the arrival of a successful GET /auth/me response
\* whose body is that User; so a present identity is always the body of an
\* earlier GET /auth/me response, never that of a POST.
C17_IdentityOnlyFromMe ==
    /\ [](user \in Users \cup {NullUser})
    /\ [][(user' # user /\ user' # NullUser) =>
             /\ last'.kind \in {"fetchMe", "login"}
             /\ last'.stage \in {"get", "me"}
             /\ last'.gets = 1
             /\ last'.cause = NoErr
             /\ last'.value = user']_vars

\* A login whose POST answered with one user and whose GET /auth/me
\* answered with another: the identity is the one GET /auth/me returned.
C17_Witness ==
    /\ LoginDone /\ last.resolved
    /\ last.token # NoToken
    /\ last.token.user_id # last.value.id
    /\ user = last.value

InFlightOf(kind) == \E op \in BagToSet(ops) : op.kind = kind

\* C18: when every request is eventually answered, a call in flight is
\* followed by the completion of a call of its kind, whether resolved or
\* rejected; every completion leaves loading = false; and loading = true
\* never lasts forever.
C18_CallsComplete ==
    /\ \A kind \in {"fetchMe", "login", "logout"} :
          InFlightOf(kind) ~> (last.kind = kind /\ ~loading)
    /\ [](last.kind # "none" => ~loading)
    /\ loading ~> ~loading

\* A login fails at its POST while another call is still in flight:
\* loading is false.
C18_Witness ==
    /\ LoginDone /\ ~last.resolved /\ last.stage = "post"
    /\ InFlight > 0
    /\ ~loading

\* C19: with the backend unchanged, when a fetchMe() called after a
\* completed fetchMe() completes, identity, theme and error are what they
\* were when it was called, that is, what the previous call left; a User the
\* backend answers with is the identity.
C19_RefetchIdempotent ==
    /\ (FetchMeDone /\ last.via = "direct") =>
          /\ last.alone
          /\ user = last.before.user
          /\ theme = last.before.theme
          /\ error = last.before.error
          /\ ~loading
    /\ FetchMeDone =>
          /\ last.cause = backend.err
          /\ last.value = backend.data
          /\ user = backend.data

\* A repeated fetchMe() has fetched the same User again.
C19_Witness ==
    /\ FetchMeDone /\ last.via = "direct" /\ last.gets = 1
    /\ backend.data \in Users
    /\ last.before.user = backend.data
    /\ user = backend.data /\ theme = backend.data.ui_theme

\* A repeated fetchMe() has failed the same way again: the same message.
C19_WitnessFailure ==
    /\ FetchMeDone /\ last.via = "direct"
    /\ backend.err # NoErr
    /\ error # NoError /\ error = last.before.error

\* A step that leaves the application on the same non-public route.
OnGuardedRoute == pathname' = pathname /\ ~isPublic(pathname)

\* The rendering goes from one of the two to the other in one step.
Direct(from, to) == Rendered = from /\ Rendered' = to

\* C20 as stated: on a fixed non-public route the guard never goes directly
\* from the shell to the bare children or back, whatever the calls, the
\* overlapping ones included.
C20_GuardTransitions_AsStated ==
    [][OnGuardedRoute =>
          /\ ~Direct("shell", "children")
          /\ ~Direct("children", "shell")]_vars

\* C20: on a fixed non-public route every change of the rendering is one of
\* placeholder -> shell and placeholder -> children, when a call completes,
\* and shell -> placeholder and children -> placeholder, when a call begins
\* or goes on to its next request, except that the completion of a call that
\* has overlapped with another can go directly from the shell to the
\* children or back.
C20_GuardTransitions ==
    [][(OnGuardedRoute /\ Rendered' # Rendered) =>
          \/ /\ Direct("placeholder", "shell")
             /\ last'.kind # "none" /\ user' # NullUser
          \/ /\ Direct("placeholder", "children")
             /\ last'.kind # "none" /\ user' = NullUser
          \/ /\ Direct("shell", "placeholder") \/ Direct("children", "placeholder")
             /\ last'.kind = "none" /\ InFlight' > 0 /\ user' = user
          \/ /\ Direct("shell", "children") \/ Direct("children", "shell")
             /\ last'.kind # "none" /\ ~last'.alone]_vars

\* A logout() running alone has completed on the dashboard route, called
\* with an identity present: the guard went shell -> placeholder -> children.
C20_Witness ==
    /\ LogoutDone /\ last.resolved /\ last.alone
    /\ last.before.user # NullUser
    /\ last.from = pathname /\ ~isPublic(pathname)
    /\ Rendered = "children"

\* The list of public routes as the claim gives it.
ListedRoutes ==
    { <<"/", "l", "o", "g", "i", "n">>,
      <<"/", "r", "e", "g", "i", "s", "t", "e", "r">>,
      <<"/">>,
      <<"/", "p", "u", "b", "l", "i", "c">> }

\* `path` is `r`, then "/", then anything.
FollowedBySlash(path, r) ==
    /\ Len(path) > Len(r)
    /\ \A i \in 1..Len(r) : path[i] = r[i]
    /\ path[Len(r) + 1] = "/"

\* C21: a path is public exactly when it is one of "/login", "/register",
\* "/", "/public" or starts with one of them followed by "/"; "/login/x" is
\* public, "/loginx" and "/dashboard" are not.
C21_PublicRoutes ==
    route.tested =>
        /\ route.path = pathname
        /\ route.public =
              (\E r \in ListedRoutes :
                   route.path = r \/ FollowedBySlash(route.path, r))
        /\ route.path = <<"/", "l", "o", "g", "i", "n", "/", "x">> => route.public
        /\ route.path = <<"/", "l", "o", "g", "i", "n", "x">> => ~route.public
        /\ route.path = <<"/", "d", "a", "s", "h", "b", "o", "a", "r", "d">>
              => ~route.public

\* "/login/x" has been tested and is public.
C21_Witness ==
    /\ route.tested
    /\ route.path = <<"/", "l", "o", "g", "i", "n", "/", "x">>
    /\ route.public

\* "/loginx" has been tested and is not public, though it starts with "/"
\* and with "/login".
C21_WitnessNotPublic ==
    /\ route.tested
    /\ route.path = <<"/", "l", "o", "g", "i", "n", "x">>
    /\ ~route.public

====
